---- MODULE Spec2Model ----
(***************************************************************************)
(* A model of src/app.py: the unegui.mn real-estate scraper.               *)
(*                                                                         *)
(*   parse_mongolian_date  relative / ISO date text -> datetime            *)
(*   get_last_page         number of index pages of a category             *)
(*   scrape_detail_page    one listing page -> record (dict) or None       *)
(*   scrape_category       index walk, thread-pool fan-out, aggregation    *)
(*                                                                         *)
(* Text is modelled as a sequence of tokens (a marker word, a blank, a     *)
(* time, an ISO date, a digit, ...), so that replace / strip / rstrip and  *)
(* the regular expression are computed on it as the code computes them.    *)
(* The Mongolian words are transliterated, the module being ASCII.         *)
(***************************************************************************)
EXTENDS Integers, Sequences, FiniteSets, TLC

VARIABLES
    \* ---- scrape_category (one run) ----
    pc,            \* position of the calling thread in scrape_category
    max_workers,   \* argument max_workers
    total_pages,   \* local total_pages (line 80)
    page,          \* loop variable of line 82
    links,         \* local links (lines 81, 88)
    requested,     \* index fetches made so far: the URL and how it ended, in order
    served,        \* index documents served to the link-collection loop, in order
    total_links,   \* local total_links (line 91)
    submitted,     \* number of executor.submit calls made (line 96)
    futures,       \* futures[k]: state, response received and outcome of the
                   \* k-th submitted call
    yieldQ,        \* futures as_completed has still to yield, in yield order
    i,             \* loop variable i of line 97
    consumed,      \* the futures as_completed has yielded so far, in order
    scraped,       \* local scraped (lines 93, 100)
    progressLog,   \* values passed to progress.progress (line 101), in order
    warnings,      \* URLs for which st.warning was called (line 75)
    error,         \* the exception scrape_category raised, "" if none
    batch,         \* the returned DataFrame's rows, once returned
    \* ---- parse_mongolian_date (one call) ----
    dRaw, dNow, dOut, dPc,
    \* ---- get_last_page (one call) ----
    lpDoc, lpOut, lpPc,
    \* ---- scrape_detail_page (one call) ----
    xUrl, xResp, xNow, xOut, xPc,
    \* ---- the Streamlit script (one run of lines 120-182) ----
    aPc,           \* position of the script: the form, or a step of the loop
    mode,          \* the radio of line 124
    start_date,    \* the date input of line 126 (a day)
    end_date,      \* the date input of line 127 (a day)
    selected,      \* the multiselect of line 130, in the order chosen
    key,           \* position of the loop of line 141 in selected
    returned,      \* the rows scrape_category returned for the category (line 144)
    df,            \* the rows of df after lines 146-150
    successes,     \* the st.success messages of lines 151, 153, in order
    saves,         \* what became of df.to_excel(full_path) per category
    aError         \* the exception that ended the script, "" if none

catVars  == <<pc, max_workers, total_pages, page, links, requested, served,
              total_links, submitted, futures, yieldQ, i, consumed, scraped,
              progressLog, warnings, error, batch>>
dateVars == <<dRaw, dNow, dOut, dPc>>
lpVars   == <<lpDoc, lpOut, lpPc>>
xVars    == <<xUrl, xResp, xNow, xOut, xPc>>
appVars  == <<aPc, mode, start_date, end_date, selected, key, returned, df,
              successes, saves, aError>>
vars     == <<catVars, dateVars, lpVars, xVars, appVars>>

----------------------------------------------------------------------------
(* Bounds of the model.                                                    *)

MaxWorkers == 2     \* max_workers ranges over 1..MaxWorkers
MaxAnchors == 2     \* anchors on one index page
MaxLinks   == 3     \* listing links collected in one run
MaxTextLen == 3     \* tokens of a date text
MaxHrefs   == 3     \* hyperlinks on the category page given to get_last_page
MaxChars   == 2     \* <li> items under ul.chars-column

----------------------------------------------------------------------------
(* Sequences and token text.                                               *)

Range(s) == {s[k] : k \in DOMAIN s}

SeqsUpTo(S, n) == UNION {[1..k -> S] : k \in 0..n}

Max(S) == CHOOSE m \in S : \A n \in S : n <= m

Blank == " "

Digits == <<"0", "1", "2", "3", "4", "5", "6", "7", "8", "9">>

\* str.replace(tok, ""): every occurrence of the token is removed
Replace(s, tok) == SelectSeq(s, LAMBDA t : t # tok)

RECURSIVE LStrip(_)
LStrip(s) == IF s # <<>> /\ Head(s) = Blank THEN LStrip(Tail(s)) ELSE s

RECURSIVE RStripTok(_, _)
RStripTok(s, tok) ==
    IF s # <<>> /\ s[Len(s)] = tok THEN RStripTok(SubSeq(s, 1, Len(s) - 1), tok)
    ELSE s

\* str.strip()
Strip(s) == RStripTok(LStrip(s), Blank)

----------------------------------------------------------------------------
(* datetime: a day number and a time of day.                               *)

DateTime(d, h, m, s) == [day |-> d, hour |-> h, minute |-> m, second |-> s]

NoDT == DateTime(0, 0, 0, 0)

Today     == "Onoodor"      \* the "today" marker of lines 17-18
Yesterday == "Ochigdor"     \* the "yesterday" marker of lines 20-21

\* Tokens that "%H:%M" accepts, with the hour and minute they denote.
TimeTokens == {"14:30", "09:00", "23:59"}
HourOf(t)   == CASE t = "14:30" -> 14 [] t = "09:00" -> 9 [] t = "23:59" -> 23
MinuteOf(t) == CASE t = "14:30" -> 30 [] t = "09:00" -> 0 [] t = "23:59" -> 59

\* Tokens datetime.fromisoformat accepts, with the datetime they denote.
IsoTokens == {"2024-01-05T10:20:30", "2024-01-08"}
IsoValue(t) == CASE t = "2024-01-05T10:20:30" -> DateTime(5, 10, 20, 30)
                 [] t = "2024-01-08"          -> DateTime(8, 0, 0, 0)

\* Everything a date text is made of; "25:61" and "abc" parse as nothing.
DateTokens == {Today, Yesterday, Blank, "25:61", "abc"} \cup TimeTokens \cup IsoTokens

\* The clock values datetime.now() is read at.
Clocks == {DateTime(10, 15, 45, 30), DateTime(1, 0, 0, 7)}

\* A call's outcome: the value returned, or the exception raised together
\* with the text its message quotes ("time data '...' does not match format").
Returned(v)     == [raised |-> "", value |-> v, data |-> <<>>]
Raised(e, text) == [raised |-> e, value |-> NoDT, data |-> text]

\* f"{date:%Y-%m-%d}": the text of a day
DateText(day) == <<"day", Digits[(day % 10) + 1]>>

\* datetime.strptime(f"{date:%Y-%m-%d} {time_part}", "%Y-%m-%d %H:%M"):
\* the text after the date must be exactly one hour:minute, else ValueError
strptime(day, time_part) ==
    IF Len(time_part) = 1 /\ time_part[1] \in TimeTokens
    THEN Returned(DateTime(day, HourOf(time_part[1]), MinuteOf(time_part[1]), 0))
    ELSE Raised("ValueError", DateText(day) \o <<Blank>> \o time_part)

\* datetime.fromisoformat(text)
fromisoformat(text) ==
    IF Len(text) = 1 /\ text[1] \in IsoTokens
    THEN Returned(IsoValue(text[1]))
    ELSE Raised("ValueError", text)

\* timedelta(days=1) subtracted from now
DayBefore(now) == [now EXCEPT !.day = now.day - 1]

\* parse_mongolian_date with the two marker tests in the other order
parse_mongolian_date_yesterday_first(raw, now) ==
    LET text == Strip(raw) IN
    IF Yesterday \in Range(text)
    THEN strptime(DayBefore(now).day, Strip(Replace(text, Yesterday)))
    ELSE IF Today \in Range(text)
    THEN strptime(now.day, Strip(Replace(text, Today)))
    ELSE LET iso == fromisoformat(text) IN
         IF iso.raised = "ValueError" THEN Returned(now) ELSE iso

parse_mongolian_date(raw, now) ==
    LET text == Strip(raw) IN
    IF Today \in Range(text)
    THEN strptime(now.day, Strip(Replace(text, Today)))
    ELSE IF Yesterday \in Range(text)
    THEN strptime(DayBefore(now).day, Strip(Replace(text, Yesterday)))
    ELSE LET iso == fromisoformat(text) IN
         IF iso.raised = "ValueError" THEN Returned(now) ELSE iso

----------------------------------------------------------------------------
(* One call of parse_mongolian_date.                                       *)

DateTexts == SeqsUpTo(DateTokens, MaxTextLen)

DateInit ==
    /\ dRaw \in DateTexts
    /\ dNow \in Clocks
    /\ dOut = Returned(NoDT)
    /\ dPc = "call"

DateCall ==
    /\ dPc = "call"
    /\ dOut' = parse_mongolian_date(dRaw, dNow)
    /\ dPc' = "returned"
    /\ UNCHANGED <<dRaw, dNow>>

----------------------------------------------------------------------------
(* Markup.  A document is the sequence of its <a> elements in document     *)
(* order; an anchor has its class "mask" or not, and an href (a token      *)
(* sequence, empty when the attribute is missing).                         *)

Anchor(m, h) == [mask |-> m, href |-> h]

DigitTokens == Range(Digits)
DigitValue(t) == (CHOOSE k \in DOMAIN Digits : Digits[k] = t) - 1

\* str(n) for a page number: its decimal digits
RECURSIVE Str(_)
Str(n) ==
    IF n < 10 THEN <<Digits[n + 1]>>
    ELSE Str(n \div 10) \o <<Digits[(n % 10) + 1]>>

\* (\d+) at position k of s: the longest run of digits, read in base ten (int)
RECURSIVE DigitRun(_, _, _)
DigitRun(s, k, acc) ==
    IF k <= Len(s) /\ s[k] \in DigitTokens
    THEN DigitRun(s, k + 1, acc * 10 + DigitValue(s[k]))
    ELSE acc

\* re.search(r'[?&]page=(\d+)', href) tried at position k and then further
\* right: the leftmost match wins; <<>> is "no match", else <<group(1) as int>>
RECURSIVE re_search_page(_, _)
re_search_page(s, k) ==
    IF k + 2 > Len(s) THEN <<>>
    ELSE IF s[k] \in {"?", "&"} /\ s[k + 1] = "page=" /\ s[k + 2] \in DigitTokens
         THEN <<DigitRun(s, k + 2, 0)>>
         ELSE re_search_page(s, k + 1)

\* soup.find_all('a', href=True)
find_all_a_href(doc) == SelectSeq(doc, LAMBDA a : a.href # <<>>)

\* the set comprehension of lines 34-38
page_nums(doc) ==
    {re_search_page(a.href, 1)[1] :
        a \in {b \in Range(find_all_a_href(doc)) : re_search_page(b.href, 1) # <<>>}}

\* LastPageOf with min written for max
LastPageOfMin(nums) ==
    IF nums # {} THEN CHOOSE m \in nums : \A n \in nums : m <= n ELSE 1

\* line 39
LastPageOf(nums) == IF nums # {} THEN Max(nums) ELSE 1

\* get_last_page on a response: requests.get raises on a network failure,
\* raise_for_status on a non-success status
FetchStatus == {"ok", "network", "http"}

\* get_last_page with the failure swallowed (one page assumed)
get_last_page_swallow(resp) ==
    IF resp.status # "ok"
    THEN [raised |-> "", value |-> 1]
    ELSE [raised |-> "", value |-> IF page_nums(resp.doc) # {}
                                   THEN Max(page_nums(resp.doc)) ELSE 1]

get_last_page(resp) ==
    IF resp.status # "ok"
    THEN [raised |-> resp.status, value |-> 0]
    ELSE [raised |-> "", value |-> LastPageOf(page_nums(resp.doc))]

\* Hrefs the category page may carry.
HrefSamples ==
    { <<"/", "?", "page=", "1">>,
      <<"/", "?", "page=", "2">>,
      <<"/", "?", "page=", "5">>,
      <<"/", "?", "page=", "1", "2">>,
      <<"/", "?", "page=", "5", "x">>,
      <<"/", "?", "page=", "x">>,
      <<"/", "?", "x", "page=", "5">>,
      <<"/", "?", "x", "&", "page=", "2">>,
      <<"/", "?", "page=", "2", "&", "page=", "5">>,
      <<"/adv/", "1">>,
      <<>> }

LpDocs == SeqsUpTo({Anchor(FALSE, h) : h \in HrefSamples}, MaxHrefs)

LpInit ==
    /\ lpDoc \in [status : FetchStatus, doc : LpDocs]
    /\ lpOut = [raised |-> "", value |-> 0]
    /\ lpPc = "call"

LpCall ==
    /\ lpPc = "call"
    /\ lpOut' = get_last_page(lpDoc)
    /\ lpPc' = "returned"
    /\ UNCHANGED lpDoc

----------------------------------------------------------------------------
(* A listing page and scrape_detail_page.                                  *)
(* An element the selectors look for is a sequence of length 0 (not in the *)
(* markup) or 1 (its text, a token sequence).  The price is a <meta>,      *)
(* with or without its "content" attribute.                                *)

\* Values of a record's fields: None, a str or a datetime.
None      == [kind |-> "None", text |-> <<>>, dt |-> NoDT]
StrVal(t) == [kind |-> "str", text |-> t, dt |-> NoDT]
DtVal(d)  == [kind |-> "datetime", text |-> <<>>, dt |-> d]

Label == "Niitelsen:"       \* the "Published:" label of lines 52 and 55

Key(name) == <<name>>       \* a dict key: the text of a field name

EmptyPage == [title |-> <<>>, price |-> <<>>, sku |-> <<>>, address |-> <<>>,
              loc2 |-> <<>>, date |-> <<>>, chars |-> <<>>]

\* A dict built from key/value pairs in order: a later pair replaces an
\* earlier one with the same key ({..., **props}, props[k] = v).
DictOf(pairs) ==
    [k \in {pairs[j][1] : j \in DOMAIN pairs} |->
        pairs[Max({j \in DOMAIN pairs : pairs[j][1] = k})][2]]

\* el.get_text(strip=True) if el else None
TextOrNone(el) == IF el # <<>> THEN StrVal(Strip(el[1])) ELSE None

\* lines 58-63: the (key, value) pairs of the <li> items that have both
\* a .key-chars and a .value-chars element, the key's trailing colons cut
RECURSIVE PropPairs(_)
PropPairs(chars) ==
    IF chars = <<>> THEN <<>>
    ELSE LET li == Head(chars) IN
         (IF li.key # <<>> /\ li.val # <<>>
          THEN << <<RStripTok(Strip(li.key[1]), ":"), StrVal(Strip(li.val[1]))>> >>
          ELSE <<>>) \o PropPairs(Tail(chars))

\* lines 52-56: None without the span, else parse_mongolian_date of the
\* span's text with the label removed
DateOf(pg, now) ==
    IF pg.date = <<>> THEN Returned(NoDT)
    ELSE parse_mongolian_date(Strip(Replace(Strip(pg.date[1]), Label)), now)

\* lines 65-73: the dict literal, ** props last
RecordOf(url, pg, now) ==
    DictOf(<< <<Key("Title"), TextOrNone(pg.title)>>,
              <<Key("Price"), IF pg.price # <<>> THEN StrVal(pg.price[1].content[1])
                              ELSE None>>,
              <<Key("Ad_ID"), TextOrNone(pg.sku)>>,
              <<Key("Location"),
                TextOrNone(IF pg.address # <<>> THEN pg.address ELSE pg.loc2)>>,
              <<Key("Date"), IF pg.date = <<>> THEN None
                             ELSE DtVal(DateOf(pg, now).value)>>,
              <<Key("URL"), StrVal(url)>> >>
           \o PropPairs(pg.chars))

\* The first exception raised in the try block of lines 43-73, "" if none:
\* requests.get / raise_for_status, then parse_mongolian_date, then
\* price_meta["content"] on a <meta> without the attribute.
ExceptionIn(resp, now) ==
    IF resp.status # "ok" THEN resp.status
    ELSE IF DateOf(resp.page, now).raised # "" THEN DateOf(resp.page, now).raised
    ELSE IF resp.page.price # <<>> /\ resp.page.price[1].content = <<>> THEN "KeyError"
    ELSE ""

\* What a call hands back: a record, or None after st.warning; "raised" is
\* the exception that leaves the function (none does: line 74 catches all).
DetailRecord(rec) == [ret |-> "record", rec |-> <<rec>>, warning |-> "", raised |-> ""]
DetailNone(exc)   == [ret |-> "None", rec |-> <<>>, warning |-> exc, raised |-> ""]

\* scrape_detail_page without the except clause of line 74
scrape_detail_page_uncaught(url, resp, now) ==
    IF ExceptionIn(resp, now) # ""
    THEN [ret |-> "None", rec |-> <<>>, warning |-> "",
          raised |-> ExceptionIn(resp, now)]
    ELSE DetailRecord(RecordOf(url, resp.page, now))

scrape_detail_page(url, resp, now) ==
    IF ExceptionIn(resp, now) # ""
    THEN DetailNone(ExceptionIn(resp, now))
    ELSE DetailRecord(RecordOf(url, resp.page, now))

\* Listing pages the model serves.
Elems(texts) == {<<>>} \cup {<<t>> : t \in texts}

PriceElems == {<<>>, <<[content |-> <<<<"100">>>>]>>, <<[content |-> <<>>]>>}

DateSpans ==
    Elems({ <<Label, Blank>> \o d :
              d \in { <<Today, Blank, "14:30">>, <<Yesterday, Blank, "09:00">>,
                      <<"2024-01-05T10:20:30">>, <<"abc">>,
                      <<Today>>, <<Today, Blank, "25:61">> } })

LiSamples ==
    { [key |-> <<<<"Area", ":">>>>, val |-> <<<<"50">>>>],
      [key |-> <<<<"URL", ":">>>>,  val |-> <<<<"spoof">>>>],
      [key |-> <<<<"Title">>>>,     val |-> <<<<"spoof", Blank>>>>],
      [key |-> <<>>,                val |-> <<<<"50">>>>],
      [key |-> <<<<"Area", ":">>>>, val |-> <<>>] }

DetailPages ==
    [title : Elems({<<Blank, "Flat">>}), price : PriceElems, sku : Elems({<<"A1">>}),
     address : Elems({<<"UB">>}), loc2 : Elems({<<"Darkhan">>}), date : DateSpans,
     chars : SeqsUpTo(LiSamples, MaxChars)]

DetailResponses ==
    [status : {"ok"}, page : DetailPages]
        \cup [status : FetchStatus \ {"ok"}, page : {EmptyPage}]

Origin == "https://www.unegui.mn"      \* the prefix of line 88

ListingUrls == {<<Origin, "/adv/", "1">>, <<Origin, "/adv/", "2">>}

DetailInit ==
    /\ xUrl \in ListingUrls
    /\ xResp \in DetailResponses
    /\ xNow \in Clocks
    /\ xOut = DetailNone("")
    /\ xPc = "call"

DetailCall ==
    /\ xPc = "call"
    /\ xOut' = scrape_detail_page(xUrl, xResp, xNow)
    /\ xPc' = "returned"
    /\ UNCHANGED <<xUrl, xResp, xNow>>

----------------------------------------------------------------------------
(* scrape_category: one run over one category.                             *)

\* categories["apartments"]["url"]
BaseUrl == <<Origin, "/l-hdlh/l-hdlh-zarna/oron-suuts-zarna/">>

\* f"{base_url}?page={page}"
PageUrl(base, n) == base \o <<"?", "page=">> \o Str(n)

\* soup.select("a.mask[href^='/adv/']")
select_listing_anchors(doc) ==
    SelectSeq(doc, LAMBDA a : a.mask /\ a.href # <<>> /\ Head(a.href) = "/adv/")

\* [f"https://www.unegui.mn{a['href']}" for a in anchors]
AbsoluteUrls(anchors) == [k \in DOMAIN anchors |-> <<Origin>> \o anchors[k].href]

\* ExtendLinks that skips a URL already collected
ExtendLinksDedup(old, doc) ==
    old \o SelectSeq([k \in DOMAIN SelectSeq(doc, LAMBDA a : a.mask /\ a.href # <<>>
                                                          /\ Head(a.href) = "/adv/")
                        |-> <<Origin>> \o SelectSeq(doc, LAMBDA a : a.mask
                                /\ a.href # <<>> /\ Head(a.href) = "/adv/")[k].href],
                     LAMBDA u : u \notin Range(old))

\* links += [...] of line 88
ExtendLinks(old, doc) == old \o AbsoluteUrls(select_listing_anchors(doc))

\* ProgressValue with enumerate counting from 0 (start=1 left out)
ProgressValueFromZero(n, total) ==
    IF n - 1 >= total THEN <<1, 1>> ELSE <<n - 1, total>>

\* min(i / total_links, 1.0), as a fraction <<numerator, denominator>>
ProgressValue(n, total) == IF n >= total THEN <<1, 1>> ELSE <<n, total>>

\* Collect with `scraped = [data]` written for the append
CollectOverwrite(acc, out) ==
    IF out.ret = "record" /\ DOMAIN out.rec[1] # {} THEN <<out.rec[1]>> ELSE acc

\* if data: scraped.append(data)   (a dict is truthy unless it is empty)
Truthy(out) == out.ret = "record" /\ DOMAIN out.rec[1] # {}
\* Collect of a list that takes each new record at its front
CollectPrepend(acc, out) == IF Truthy(out) THEN <<out.rec[1]>> \o acc ELSE acc
Collect(acc, out) == IF Truthy(out) THEN Append(acc, out.rec[1]) ELSE acc

\* ThreadPoolExecutor(max_workers): a queued call starts only on a free thread
Running(fs) == {k \in DOMAIN fs : fs[k].state = "running"}
Queued(fs)  == {k \in DOMAIN fs : fs[k].state = "queued"}
Finished(fs) == {k \in DOMAIN fs : fs[k].state = "finished"}
\* WorkerFree of a pool that starts a thread for every submitted call
WorkerAlwaysFree(fs, workers) == workers >= 1
WorkerFree(fs, workers) == Cardinality(Running(fs)) < workers

\* Orders in which as_completed yields the futures already finished when it
\* is called (it keeps them in a set).
Orders(S) ==
    {q \in [1..Cardinality(S) -> S] : \A a, b \in DOMAIN q : a # b => q[a] # q[b]}

\* What the site serves in a run.
PagerHrefs == { <<"/", "?", "page=", "0">>, <<"/", "?", "page=", "1">>,
                <<"/", "?", "page=", "2">> }

CategoryDocs == {<<>>} \cup {<<Anchor(FALSE, h)>> : h \in PagerHrefs}

AnchorSamples ==
    { Anchor(TRUE, <<"/adv/", "1">>), Anchor(TRUE, <<"/adv/", "2">>),
      Anchor(FALSE, <<"/adv/", "1">>), Anchor(TRUE, <<"/", "?", "page=", "2">>) }

IndexDocs == SeqsUpTo(AnchorSamples, MaxAnchors)

Failures(docs) == [status : FetchStatus \ {"ok"}, doc : {<<>>}]
IndexResponses(docs) == [status : {"ok"}, doc : docs] \cup Failures(docs)

FullPage ==
    [title |-> <<<<"Flat">>>>, price |-> <<[content |-> <<<<"100">>>>]>>,
     sku |-> <<<<"A1">>>>, address |-> <<<<"UB">>>>, loc2 |-> <<>>,
     date |-> <<<<Label, Blank, "2024-01-05T10:20:30">>>>,
     chars |-> <<[key |-> <<<<"Area", ":">>>>, val |-> <<<<"50">>>>]>>]

FanoutResponses ==
    { [status |-> "network", page |-> EmptyPage],
      [status |-> "http", page |-> EmptyPage],
      [status |-> "ok", page |-> FullPage],
      [status |-> "ok", page |-> [FullPage EXCEPT !.date = <<<<Label, Today>>>>]] }

NoResponse == [status |-> "ok", page |-> EmptyPage]

NoOutcome == DetailNone("")

CatInit ==
    /\ pc = "get_last_page"
    /\ max_workers \in 1..MaxWorkers
    /\ total_pages = 0
    /\ page = 0
    /\ links = <<>>
    /\ requested = <<>>
    /\ served = <<>>
    /\ total_links = 0
    /\ submitted = 0
    /\ futures = <<>>
    /\ yieldQ = <<>>
    /\ i = 0
    /\ consumed = <<>>
    /\ scraped = <<>>
    /\ progressLog = <<>>
    /\ warnings = {}
    /\ error = ""
    /\ batch = <<>>

\* line 80: total_pages = get_last_page(base_url); an exception leaves
\* scrape_category
GetLastPage ==
    /\ pc = "get_last_page"
    /\ \E resp \in IndexResponses(CategoryDocs) :
         LET r == get_last_page(resp) IN
         /\ requested' = Append(requested, [url |-> BaseUrl, status |-> resp.status])
         /\ IF r.raised # ""
            THEN /\ pc' = "raised"
                 /\ error' = r.raised
                 /\ UNCHANGED <<total_pages, page>>
            ELSE /\ pc' = "collect"
                 /\ total_pages' = r.value
                 /\ page' = 1
                 /\ UNCHANGED error
    /\ UNCHANGED <<max_workers, links, served, total_links, submitted, futures,
                   yieldQ, i, consumed, scraped, progressLog, warnings, batch>>

\* lines 82-88: one pass of the loop body
FetchIndexPage ==
    /\ pc = "collect"
    /\ page <= total_pages
    /\ \E resp \in IndexResponses(IndexDocs) :
         /\ Len(ExtendLinks(links, resp.doc)) <= MaxLinks
         /\ requested' = Append(requested, [url |-> PageUrl(BaseUrl, page),
                                           status |-> resp.status])
         /\ IF resp.status # "ok"
            THEN /\ pc' = "raised"
                 /\ error' = resp.status
                 /\ UNCHANGED <<links, served, page>>
            ELSE /\ links' = ExtendLinks(links, resp.doc)
                 /\ served' = Append(served, resp.doc)
                 /\ page' = page + 1
                 /\ UNCHANGED <<pc, error>>
    /\ UNCHANGED <<max_workers, total_pages, total_links, submitted, futures,
                   yieldQ, i, consumed, scraped, progressLog, warnings, batch>>

\* lines 90-95: the loop is left; the count is announced, the progress bar
\* and the pool are created.  The served documents are not referred to again.
EndCollect ==
    /\ pc = "collect"
    /\ page > total_pages
    /\ total_links' = Len(links)
    /\ served' = <<>>
    /\ pc' = "submit"
    /\ UNCHANGED <<max_workers, total_pages, page, links, requested, submitted,
                   futures, yieldQ, i, consumed, scraped, progressLog, warnings, error, batch>>

\* Submit of a pipeline that hands a link to the pool as soon as it is known
SubmitWhileCollecting ==
    /\ pc \in {"collect", "submit"}
    /\ submitted < Len(links)
    /\ submitted' = submitted + 1
    /\ futures' = Append(futures, [state |-> "queued", resp |-> NoResponse,
                                   out |-> NoOutcome])
    /\ UNCHANGED <<pc, max_workers, total_pages, page, links, requested, served,
                   total_links, yieldQ, i, consumed, scraped, progressLog,
                   warnings, error, batch>>

\* line 96: executor.submit(scrape_detail_page, url) for the next url
Submit ==
    /\ pc = "submit"
    /\ submitted < Len(links)
    /\ submitted' = submitted + 1
    /\ futures' = Append(futures, [state |-> "queued", resp |-> NoResponse,
                                   out |-> NoOutcome])
    /\ UNCHANGED <<pc, max_workers, total_pages, page, links, requested, served,
                   total_links, yieldQ, i, consumed, scraped, progressLog, warnings, error,
                   batch>>

\* line 97: as_completed(futures) is entered
EnterAsCompleted ==
    /\ pc = "submit"
    /\ submitted = Len(links)
    /\ yieldQ' \in Orders(Finished(futures))
    /\ pc' = "as_completed"
    /\ UNCHANGED <<max_workers, total_pages, page, links, requested, served,
                   total_links, submitted, futures, i, consumed, scraped, progressLog,
                   warnings, error, batch>>

\* a pool thread takes the oldest queued call and enters scrape_detail_page
StartFetch ==
    /\ Queued(futures) # {}
    /\ WorkerFree(futures, max_workers)
    /\ LET k == CHOOSE m \in Queued(futures) : \A n \in Queued(futures) : m <= n
       IN futures' = [futures EXCEPT ![k].state = "running"]
    /\ UNCHANGED <<pc, max_workers, total_pages, page, links, requested, served,
                   total_links, submitted, yieldQ, i, consumed, scraped, progressLog,
                   warnings, error, batch>>

\* FinishFetch that queues a failed call again (a retry)
FinishFetchRetry ==
    /\ \E k \in Running(futures), resp \in FanoutResponses, now \in Clocks :
         LET out == scrape_detail_page(links[k], resp, now) IN
         /\ futures' = [futures EXCEPT ![k] =
                            IF out.ret = "None"
                            THEN [state |-> "queued", resp |-> resp, out |-> NoOutcome]
                            ELSE [state |-> "finished", resp |-> resp, out |-> out]]
         /\ warnings' = IF out.warning # "" THEN warnings \cup {k} ELSE warnings
         /\ yieldQ' = IF pc = "as_completed" /\ out.ret # "None"
                      THEN Append(yieldQ, k) ELSE yieldQ
    /\ UNCHANGED <<pc, max_workers, total_pages, page, links, requested, served,
                   total_links, submitted, i, consumed, scraped, progressLog,
                   error, batch>>

\* FinishFetch of a worker that appends its record and ticks the progress
\* itself, from the pool thread
FinishFetchAppends ==
    /\ \E k \in Running(futures), resp \in FanoutResponses, now \in Clocks :
         LET out == scrape_detail_page(links[k], resp, now) IN
         /\ futures' = [futures EXCEPT ![k] = [state |-> "finished", resp |-> resp,
                                            out |-> out]]
         /\ warnings' = IF out.warning # "" THEN warnings \cup {k} ELSE warnings
         /\ yieldQ' = IF pc = "as_completed" THEN Append(yieldQ, k) ELSE yieldQ
         /\ scraped' = Collect(scraped, out)
         /\ progressLog' = Append(progressLog,
                                  ProgressValue(Len(progressLog) + 1, total_links))
    /\ UNCHANGED <<pc, max_workers, total_pages, page, links, requested, served,
                   total_links, submitted, i, consumed, error, batch>>

\* lines 42-76 in a pool thread: the call of scrape_detail_page returns
FinishFetch ==
    /\ \E k \in Running(futures), resp \in FanoutResponses, now \in Clocks :
         LET out == scrape_detail_page(links[k], resp, now) IN
         /\ futures' = [futures EXCEPT ![k] = [state |-> "finished", resp |-> resp,
                                            out |-> out]]
         /\ warnings' = IF out.warning # "" THEN warnings \cup {k} ELSE warnings
         /\ yieldQ' = IF pc = "as_completed" THEN Append(yieldQ, k) ELSE yieldQ
    /\ UNCHANGED <<pc, max_workers, total_pages, page, links, requested, served,
                   total_links, submitted, i, consumed, scraped, progressLog, error, batch>>

\* lines 97-101: one pass of the loop body; future.result() re-raises what
\* the call raised
Consume ==
    /\ pc = "as_completed"
    /\ yieldQ # <<>>
    /\ LET out == futures[Head(yieldQ)].out IN
         IF out.raised # ""
         THEN /\ pc' = "raised"
              /\ error' = out.raised
              /\ UNCHANGED <<i, consumed, scraped, progressLog>>
         ELSE /\ i' = i + 1
              /\ consumed' = Append(consumed, Head(yieldQ))
              /\ scraped' = Collect(scraped, out)
              /\ progressLog' = Append(progressLog, ProgressValue(i + 1, total_links))
              /\ UNCHANGED <<pc, error>>
    /\ yieldQ' = Tail(yieldQ)
    /\ UNCHANGED <<max_workers, total_pages, page, links, requested, served,
                   total_links, submitted, futures, warnings, batch>>

\* Return of a loop that stops as soon as no completed call is waiting
ReturnEarly ==
    /\ pc = "as_completed"
    /\ yieldQ = <<>>
    /\ batch' = scraped
    /\ pc' = "done"
    /\ UNCHANGED <<max_workers, total_pages, page, links, requested, served,
                   total_links, submitted, futures, yieldQ, i, consumed, scraped,
                   progressLog, warnings, error>>

\* line 103: every future has been yielded; the pool is shut down and the
\* DataFrame of scraped returned
Return ==
    /\ pc = "as_completed"
    /\ i = Len(futures)
    /\ batch' = scraped
    /\ pc' = "done"
    /\ UNCHANGED <<max_workers, total_pages, page, links, requested, served,
                   total_links, submitted, futures, yieldQ, i, consumed, scraped,
                   progressLog, warnings, error>>

----------------------------------------------------------------------------
(* The Streamlit script, lines 120-182: the form, then for every selected  *)
(* category scrape_category, the date mode, the success message and the    *)
(* saving.  What scrape_category hands back is an input here: a batch of   *)
(* rows, or the exception of a failed index fetch.  A row is the dict of   *)
(* lines 65-73, of which the script reads the "Date" column only.          *)

MaxBatch    == 3    \* rows of a batch scrape_category returns
MaxSelected == 2    \* categories chosen in the multiselect

Modes      == {"All Dates", "Custom Range"}
Categories == {"apartments", "land"}

\* datetime.now() of lines 126-127
AppNow == DateTime(10, 15, 45, 30)

\* the values the two date inputs start with, and another one for each
DefaultStart == AppNow.day - 7
DefaultEnd   == AppNow.day
StartDates   == {DefaultStart, AppNow.day - 2}
EndDates     == {DefaultEnd, AppNow.day - 3}

\* the orders in which the multiselect can hold up to MaxSelected categories
Selections ==
    {sel \in SeqsUpTo(Categories, MaxSelected) :
        \A a, b \in DOMAIN sel : a # b => sel[a] # sel[b]}

\* "Date" of a row: None (no date span on the page) or a datetime
RowDates ==
    {None,
     DtVal(DateTime(AppNow.day - 3, 9, 0, 0)),
     DtVal(DateTime(AppNow.day - 2, 0, 0, 0)),
     DtVal(DateTime(AppNow.day - 1, 14, 30, 0)),
     DtVal(DateTime(AppNow.day, 23, 59, 59)),
     DtVal(DateTime(AppNow.day + 2, 9, 0, 0))}

Row(n, date) ==
    DictOf(<< <<Key("Date"), date>>, <<Key("URL"), StrVal(<<"ad", Digits[n + 1]>>)>> >>)

\* pd.DataFrame(scraped): the batches of at most MaxBatch rows
Batches ==
    {[n \in DOMAIN ds |-> Row(n, ds[n])] : ds \in SeqsUpTo(RowDates, MaxBatch)}

\* The place of a datetime on the time line, in seconds.  Microseconds are
\* cut: the lower bound of line 148 has none and the upper bound of line
\* 149 has all of them, so that cutting them changes no comparison.
Instant(dt) == ((dt.day * 24 + dt.hour) * 60 + dt.minute) * 60 + dt.second

\* datetime.combine(start_date, datetime.min.time())
RangeStart(day) == DateTime(day, 0, 0, 0)

\* RangeEnd of a range that ends when its last day begins
RangeEndMidnight(day) == DateTime(day, 0, 0, 0)

\* datetime.combine(end_date, datetime.max.time())
RangeEnd(day) == DateTime(day, 23, 59, 59)

\* Series.between(left, right) on one value: both ends are included, and a
\* missing value (None, NaT) is in no range
between(v, left, right) ==
    /\ v.kind = "datetime"
    /\ Instant(left) <= Instant(v.dt)
    /\ Instant(v.dt) <= Instant(right)

\* a DataFrame has the columns of its rows' keys: pd.DataFrame([]) has none
HasColumn(rows, name) == \E n \in DOMAIN rows : name \in DOMAIN rows[n]

\* lines 147-150: df[df["Date"].between(...)]; df["Date"] raises KeyError
\* when the frame has no such column
DateFilter(rows, start, end) ==
    IF ~HasColumn(rows, Key("Date"))
    THEN [raised |-> "KeyError", rows |-> <<>>]
    ELSE [raised |-> "",
          rows |-> SelectSeq(rows, LAMBDA r : between(r[Key("Date")],
                                                     RangeStart(start), RangeEnd(end)))]

\* the script as it first shows the form: the widgets at their defaults
AppInit ==
    /\ aPc = "form" /\ mode = "Custom Range"
    /\ start_date = DefaultStart /\ end_date = DefaultEnd
    /\ selected = <<>> /\ key = 0 /\ returned = <<>> /\ df = <<>>
    /\ successes = <<>> /\ saves = <<>> /\ aError = ""

\* lines 124-138: the user sets the widgets; the date inputs exist in
\* "Custom Range" mode only
SetWidgets ==
    /\ aPc = "form"
    /\ \E m \in Modes, sd \in StartDates, ed \in EndDates, sel \in Selections :
         /\ mode' = m
         /\ start_date' = IF m = "Custom Range" THEN sd ELSE 0
         /\ end_date' = IF m = "Custom Range" THEN ed ELSE 0
         /\ selected' = sel
    /\ UNCHANGED <<aPc, key, returned, df, successes, saves, aError>>

\* line 140: the button is pressed with a category selected
StartScraping ==
    /\ aPc = "form"
    /\ selected # <<>>
    /\ key' = 1
    /\ aPc' = "scrape"
    /\ UNCHANGED <<mode, start_date, end_date, selected, returned, df, successes,
                   saves, aError>>

\* lines 142-144: scrape_category returns a batch, or raises the exception
\* of a failed index fetch, which ends the script
ScrapeCategory ==
    /\ aPc = "scrape"
    /\ \/ \E rows \in Batches :
            /\ returned' = rows
            /\ df' = rows
            /\ aPc' = "date_mode"
            /\ UNCHANGED aError
       \/ \E e \in FetchStatus \ {"ok"} :
            /\ aError' = e
            /\ aPc' = "failed"
            /\ UNCHANGED <<returned, df>>
    /\ UNCHANGED <<mode, start_date, end_date, selected, key, successes, saves>>

Success(category, count, range) ==
    [category |-> category, count |-> count, range |-> range]

\* lines 146-153: the filter and the message of the selected mode
ApplyDateMode ==
    /\ aPc = "date_mode"
    /\ IF mode = "Custom Range"
       THEN LET f == DateFilter(df, start_date, end_date) IN
            IF f.raised # ""
            THEN /\ aError' = f.raised
                 /\ aPc' = "failed"
                 /\ UNCHANGED <<df, successes>>
            ELSE /\ df' = f.rows
                 /\ successes' = Append(successes,
                        Success(selected[key], Len(f.rows), <<start_date, end_date>>))
                 /\ aPc' = "save"
                 /\ UNCHANGED aError
       ELSE /\ successes' = Append(successes, Success(selected[key], Len(df), <<>>))
            /\ aPc' = "save"
            /\ UNCHANGED <<df, aError>>
    /\ UNCHANGED <<mode, start_date, end_date, selected, key, returned, saves>>

\* lines 155-182: df.to_excel(full_path) writes the file or its exception
\* is shown by st.error; the download is offered; the loop goes on
SaveAndDownload ==
    /\ aPc = "save"
    /\ \E written \in BOOLEAN :
         saves' = Append(saves, [category |-> selected[key], written |-> written,
                                 rows |-> Len(df)])
    /\ IF key < Len(selected)
       THEN key' = key + 1 /\ aPc' = "scrape"
       ELSE key' = key /\ aPc' = "end"
    /\ UNCHANGED <<mode, start_date, end_date, selected, returned, df, successes,
                   aError>>

----------------------------------------------------------------------------
(* The specifications: a run of scrape_category, and one call of each of   *)
(* the three functions on every input of its bounded domain.               *)

CatIdle ==
    /\ pc = "idle" /\ max_workers = 1 /\ total_pages = 0 /\ page = 0
    /\ links = <<>> /\ requested = <<>> /\ served = <<>> /\ total_links = 0
    /\ submitted = 0 /\ futures = <<>> /\ yieldQ = <<>> /\ i = 0 /\ consumed = <<>>
    /\ scraped = <<>> /\ progressLog = <<>> /\ warnings = {} /\ error = ""
    /\ batch = <<>>

DateIdle ==
    dRaw = <<>> /\ dNow = NoDT /\ dOut = Returned(NoDT) /\ dPc = "idle"

LpIdle ==
    /\ lpDoc = [status |-> "ok", doc |-> <<>>]
    /\ lpOut = [raised |-> "", value |-> 0]
    /\ lpPc = "idle"

DetailIdle ==
    /\ xUrl = <<>> /\ xResp = NoResponse
    /\ xNow = NoDT /\ xOut = NoOutcome /\ xPc = "idle"

AppIdle ==
    /\ aPc = "idle" /\ mode = "Custom Range" /\ start_date = 0 /\ end_date = 0
    /\ selected = <<>> /\ key = 0 /\ returned = <<>> /\ df = <<>>
    /\ successes = <<>> /\ saves = <<>> /\ aError = ""

Init == CatInit /\ DateIdle /\ LpIdle /\ DetailIdle /\ AppIdle

Next ==
    \/ GetLastPage /\ UNCHANGED <<dateVars, lpVars, xVars, appVars>>
    \/ FetchIndexPage /\ UNCHANGED <<dateVars, lpVars, xVars, appVars>>
    \/ EndCollect /\ UNCHANGED <<dateVars, lpVars, xVars, appVars>>
    \/ Submit /\ UNCHANGED <<dateVars, lpVars, xVars, appVars>>
    \/ EnterAsCompleted /\ UNCHANGED <<dateVars, lpVars, xVars, appVars>>
    \/ StartFetch /\ UNCHANGED <<dateVars, lpVars, xVars, appVars>>
    \/ FinishFetch /\ UNCHANGED <<dateVars, lpVars, xVars, appVars>>
    \/ Consume /\ UNCHANGED <<dateVars, lpVars, xVars, appVars>>
    \/ Return /\ UNCHANGED <<dateVars, lpVars, xVars, appVars>>

Spec == Init /\ [][Next]_vars

\* The calling thread keeps running (its requests carry timeout=10, so none
\* blocks for ever), and the pool's threads keep taking queued calls and
\* every call they run ends.
CallerSteps ==
    (GetLastPage \/ FetchIndexPage \/ EndCollect \/ Submit \/ EnterAsCompleted
        \/ Consume \/ Return) /\ UNCHANGED <<dateVars, lpVars, xVars, appVars>>
WorkerSteps ==
    (StartFetch \/ FinishFetch) /\ UNCHANGED <<dateVars, lpVars, xVars, appVars>>
SpecFair == Spec /\ WF_vars(CallerSteps) /\ WF_vars(WorkerSteps)

DateSpecInit == DateInit /\ CatIdle /\ LpIdle /\ DetailIdle /\ AppIdle
DateNext == DateCall /\ UNCHANGED <<catVars, lpVars, xVars, appVars>>
SpecDate == DateSpecInit /\ [][DateNext]_vars

LpSpecInit == LpInit /\ CatIdle /\ DateIdle /\ DetailIdle /\ AppIdle
LpNext == LpCall /\ UNCHANGED <<catVars, dateVars, xVars, appVars>>
SpecLastPage == LpSpecInit /\ [][LpNext]_vars

DetailSpecInit == DetailInit /\ CatIdle /\ DateIdle /\ LpIdle /\ AppIdle
DetailNext == DetailCall /\ UNCHANGED <<catVars, dateVars, lpVars, appVars>>
SpecDetail == DetailSpecInit /\ [][DetailNext]_vars

AppSpecInit == AppInit /\ CatIdle /\ DateIdle /\ LpIdle /\ DetailIdle
AppNext ==
    \/ SetWidgets /\ UNCHANGED <<catVars, dateVars, lpVars, xVars>>
    \/ StartScraping /\ UNCHANGED <<catVars, dateVars, lpVars, xVars>>
    \/ ScrapeCategory /\ UNCHANGED <<catVars, dateVars, lpVars, xVars>>
    \/ ApplyDateMode /\ UNCHANGED <<catVars, dateVars, lpVars, xVars>>
    \/ SaveAndDownload /\ UNCHANGED <<catVars, dateVars, lpVars, xVars>>
SpecApp == AppSpecInit /\ [][AppNext]_vars

----------------------------------------------------------------------------
(* Properties of scrape_category (specification Spec).                     *)

Succeeded(fs) == {k \in DOMAIN fs : fs[k].state = "finished" /\ fs[k].out.ret = "record"}
FailedFetches(fs) == {k \in DOMAIN fs : fs[k].state = "finished" /\ fs[k].out.ret = "None"}

\* C1: when scrape_category returns, over N links of which F extractions
\* returned no record, the batch holds exactly N - F records: the records of
\* the successful extractions, each once, and nothing else; no error is raised.
C1_BatchIsTheSuccesses ==
    pc = "done" =>
        /\ error = ""
        /\ Len(futures) = Len(links)
        /\ Succeeded(futures) \cup FailedFetches(futures) = DOMAIN links
        /\ Len(batch) = Len(links) - Cardinality(FailedFetches(futures))
        /\ \E q \in Orders(Succeeded(futures)) :
               batch = [j \in DOMAIN q |-> futures[q[j]].out.rec[1]]

\* a run of 3 links on 2 threads with failed and successful extractions
C1_Witness ==
    /\ pc = "done"
    /\ Len(links) = 3
    /\ max_workers = 2
    /\ Cardinality(FailedFetches(futures)) = 1
    /\ Len(batch) = 2

\* C2: at every moment the number of scrape_detail_page calls started and
\* not finished is at most max_workers.
C2_InFlightBounded == Cardinality(Running(futures)) <= max_workers

\* the pool is saturated while a call still waits
C2_Witness ==
    /\ Cardinality(Running(futures)) = max_workers
    /\ Queued(futures) # {}
    /\ Finished(futures) # {}

FracLeq(a, b) == a[1] * b[2] <= b[1] * a[2]
FracEq(a, b)  == a[1] * b[2] = b[1] * a[2]

\* C3: one progress value is reported per completion taken, failed ones
\* included; the k-th value is k/N; the values never decrease and never
\* exceed 1; at return N values were reported and the last is exactly 1.0.
C3_ProgressIsCompletedOverTotal ==
    /\ Len(progressLog) = i
    /\ \A k \in DOMAIN progressLog :
          /\ FracEq(progressLog[k], <<k, Len(links)>>)
          /\ FracLeq(progressLog[k], <<1, 1>>)
          /\ k > 1 => FracLeq(progressLog[k - 1], progressLog[k])
    /\ (pc = "done" /\ Len(links) >= 1) =>
          /\ Len(progressLog) = Len(links)
          /\ progressLog[Len(progressLog)] = <<1, 1>>

\* a finished run of 3 links, one of them failed
C3_Witness ==
    /\ pc = "done"
    /\ Len(progressLog) = 3
    /\ FailedFetches(futures) # {}
    /\ Succeeded(futures) # {}

\* C4: a failure while fetching or parsing one listing ends inside
\* scrape_detail_page: it warns and returns None, nothing reaches
\* scrape_category, the other listings are processed and the batch returned.
C4_FailureStaysInTheCall ==
    /\ \A k \in Finished(futures) :
          /\ futures[k].out.raised = ""
          /\ (\E now \in Clocks : ExceptionIn(futures[k].resp, now) # "") =>
                /\ futures[k].out.ret = "None"
                /\ k \in warnings
    /\ futures # <<>> => pc # "raised"
    /\ pc = "done" => Finished(futures) = DOMAIN links

\* a returned batch after a network failure, a bad status and a parse failure
C4_Witness ==
    /\ pc = "done"
    /\ batch # <<>>
    /\ \E k \in DOMAIN futures : futures[k].resp.status = "network"
    /\ \E k \in DOMAIN futures :
          futures[k].resp.status = "ok" /\ futures[k].out.warning = "ValueError"

\* once the fan-out has begun a step changes neither the links, nor the
\* denominator, nor the index requests
LinksStayFixed ==
    pc \in {"submit", "as_completed", "done"} =>
        /\ links' = links
        /\ total_links' = total_links
        /\ requested' = requested

\* C14: listing the pages and collecting the links are over before the
\* fan-out: once a call is submitted every index page has been fetched, and
\* the link list and the progress denominator, fixed before the first
\* submit, never change again.
C14_CollectionBeforeFanOut ==
    /\ [](pc \in {"submit", "as_completed", "done"} =>
             /\ page = total_pages + 1
             /\ Len(requested) = total_pages + 1
             /\ \A k \in DOMAIN requested : requested[k].status = "ok"
             /\ total_links = Len(links))
    /\ [](futures # <<>> => pc \in {"submit", "as_completed", "done"})
    /\ [][LinksStayFixed]_vars

\* a call runs; both index pages were fetched before
C14_Witness ==
    /\ Running(futures) # {}
    /\ total_pages = 2
    /\ Len(requested) = 3
    /\ total_links = 3

NoRepeat(q) == \A a, b \in DOMAIN q : a # b => q[a] # q[b]

\* a step keeps every call, never moves one backwards and leaves a
\* finished call as it is
CallsOnlyAdvance ==
    \A k \in DOMAIN futures :
        /\ k \in DOMAIN futures'
        /\ futures[k].state = "running" =>
              futures'[k].state \in {"running", "finished"}
        /\ futures[k].state = "finished" => futures'[k] = futures[k]

\* C15: every link gets one call of scrape_detail_page and every URL is
\* fetched once: an index URL is requested once, a call goes from queued to
\* running to finished and never back, a finished call keeps its outcome,
\* and a failed listing is not in the batch.
C15_OneAttemptEach ==
    /\ [](NoRepeat([k \in DOMAIN requested |-> requested[k].url]))
    /\ [](Len(futures) = submitted /\ submitted <= Len(links))
    /\ [](pc = "done" =>
             /\ Len(futures) = Len(links)
             /\ Len(consumed) = Len(links) /\ NoRepeat(consumed)
             /\ Len(batch) = Cardinality(Succeeded(futures)))
    /\ [][CallsOnlyAdvance]_vars

\* a returned run in which a call failed
C15_Witness ==
    /\ pc = "done"
    /\ Len(links) = 3
    /\ \E k \in DOMAIN futures : futures[k].out.warning = "network"
    /\ Len(batch) = 2

\* the records of the calls of fs that produced one, in the given order
RECURSIVE RecordsOf(_, _)
RecordsOf(order, fs) ==
    IF order = <<>> THEN <<>>
    ELSE (IF Truthy(fs[Head(order)].out) THEN <<fs[Head(order)].out.rec[1]>>
          ELSE <<>>) \o RecordsOf(Tail(order), fs)

\* a step that writes the result list, the progress or the counter is one
\* pass of the calling thread's loop: no call changes in it, the counter
\* goes up by one, one progress value is added and at most one record
OneWriterStep ==
    (scraped' # scraped \/ progressLog' # progressLog \/ i' # i) =>
        /\ pc = "as_completed"
        /\ futures' = futures
        /\ i' = i + 1
        /\ Len(progressLog') = Len(progressLog) + 1
        /\ SubSeq(progressLog', 1, Len(progressLog)) = progressLog
        /\ Len(scraped') \in {Len(scraped), Len(scraped) + 1}
        /\ SubSeq(scraped', 1, Len(scraped)) = scraped

\* C17: the result list and the progress counter are written one write at
\* a time, by the thread that consumes the completions, under every
\* interleaving of the workers: there is one progress value per consumed
\* call and one record per consumed success, so that no record and no tick
\* is lost or doubled, and a returned run has ticked once for every link.
C17_OneWriterAtATime ==
    /\ [][OneWriterStep]_vars
    /\ [](Len(progressLog) = i /\ Len(consumed) = i)
    /\ [](Len(scraped) = Len(RecordsOf(consumed, futures)))
    /\ [](pc = "done" => i = total_links /\ Len(progressLog) = total_links)

\* two calls are running in two pool threads while the list already holds
\* a record
C17_Witness ==
    /\ Cardinality(Running(futures)) = 2
    /\ scraped # <<>>
    /\ i >= 1

\* C18: the batch holds the records in the order in which the calls were
\* seen to complete and not in the order of the links.
C18_BatchInCompletionOrder ==
    /\ scraped = RecordsOf(consumed, futures)
    /\ pc = "done" => batch = RecordsOf(consumed, futures)

\* a returned batch whose first record is of a link submitted after the
\* link of its second record
C18_Witness ==
    /\ pc = "done"
    /\ max_workers >= 2
    /\ Len(batch) >= 2
    /\ \E a, b \in DOMAIN consumed :
          /\ a < b
          /\ consumed[a] > consumed[b]
          /\ links[consumed[a]] # links[consumed[b]]
          /\ batch[1] = futures[consumed[a]].out.rec[1]
          /\ batch[2] = futures[consumed[b]].out.rec[1]
          /\ batch[1] # batch[2]

\* a submitted call is never taken back: a step removes no call and moves a
\* call only from queued to running or from running to finished
NoCancelStep ==
    /\ Len(futures') >= Len(futures)
    /\ \A k \in DOMAIN futures :
          futures'[k].state # futures[k].state =>
              <<futures[k].state, futures'[k].state>> \in
                  {<<"queued", "running">>, <<"running", "finished">>}

\* C16: scrape_category returns only after every submitted call has
\* completed: at the return every link has its call, none is queued, none is
\* running and every one has been consumed; no submitted call is cancelled;
\* and when the threads are scheduled fairly and every call ends, a run
\* that has reached the fan-out returns.
C16_ReturnsAfterAllComplete ==
    /\ [](pc = "done" =>
             /\ Len(futures) = Len(links)
             /\ Queued(futures) = {} /\ Running(futures) = {}
             /\ Finished(futures) = DOMAIN futures
             /\ Range(consumed) = DOMAIN futures
             /\ yieldQ = <<>>)
    /\ [][NoCancelStep]_vars
    /\ (pc = "submit") ~> (pc = "done")

\* a returned run of one worker and three links, whose later calls had to
\* wait in the queue
C16_Witness ==
    /\ pc = "done"
    /\ max_workers = 1
    /\ Len(futures) = 3
    /\ Finished(futures) = {1, 2, 3}

\* C6: a failed fetch of the category page or of an index page ends the run
\* with that error: it is the last fetch made, nothing is returned and no
\* call of scrape_detail_page was ever submitted or started.
C6_IndexFailureAborts ==
    (\E k \in DOMAIN requested : requested[k].status # "ok") =>
        /\ pc = "raised"
        /\ \A k \in DOMAIN requested : requested[k].status # "ok" => k = Len(requested)
        /\ error = requested[Len(requested)].status
        /\ submitted = 0
        /\ futures = <<>>
        /\ scraped = <<>>
        /\ batch = <<>>

\* the second index page fails after the first one gave links
C6_Witness ==
    /\ pc = "raised"
    /\ Len(requested) = 3
    /\ links # <<>>

\* The listing URLs of one document, in document order, written from the
\* positions of its listing anchors.
IsListingAnchor(a) == a.mask /\ a.href # <<>> /\ a.href[1] = "/adv/"
ListingPositions(doc) == {k \in DOMAIN doc : IsListingAnchor(doc[k])}
ListingUrlsOf(doc) ==
    [j \in 1..Cardinality(ListingPositions(doc)) |->
        LET k == CHOOSE m \in ListingPositions(doc) :
                     Cardinality({n \in ListingPositions(doc) : n <= m}) = j
        IN <<"https://www.unegui.mn">> \o doc[k].href]

RECURSIVE ConcatListingUrls(_)
ConcatListingUrls(docs) ==
    IF docs = <<>> THEN <<>>
    ELSE ConcatListingUrls(SubSeq(docs, 1, Len(docs) - 1))
             \o ListingUrlsOf(docs[Len(docs)])

\* C9: the index pages base?page=N are fetched for N = 1, 2, ... in this
\* order, once each, up to page_count; the link list is the concatenation in
\* page order, then document order, of the absolute URLs of the listing
\* anchors served, none dropped, moved or merged.
C9_LinksAreThePagesInOrder ==
    /\ pc = "collect" =>
          /\ Len(requested) = page
          /\ requested[1] = [url |-> BaseUrl, status |-> "ok"]
          /\ \A n \in 1..(page - 1) :
                requested[n + 1] =
                    [url |-> BaseUrl \o <<"?", "page=", Digits[n + 1]>>, status |-> "ok"]
          /\ Len(served) = page - 1
          /\ page <= total_pages + 1
          /\ links = ConcatListingUrls(served)
    /\ pc \in {"submit", "as_completed", "done"} =>
          /\ Len(requested) = total_pages + 1
          /\ page = total_pages + 1

\* two pages served, three links kept, one URL listed twice and an anchor
\* that is no listing anchor left out
C9_Witness ==
    /\ pc = "collect"
    /\ total_pages = 2
    /\ page = 3
    /\ Len(links) = 3
    /\ links[1] = links[3]
    /\ \E d \in Range(served) : \E k \in DOMAIN d : ~IsListingAnchor(d[k])

----------------------------------------------------------------------------
(* Properties of parse_mongolian_date (specification SpecDate).            *)

OnlyTime(text) == Len(text) = 1 /\ text[1] \in TimeTokens
OnlyIso(text)  == Len(text) = 1 /\ text[1] \in IsoTokens

\* no attempt of the function parses the text
NothingParses(raw) ==
    /\ ~OnlyIso(Strip(raw))
    /\ ~(Today \in Range(raw) /\ OnlyTime(Strip(Replace(Strip(raw), Today))))
    /\ ~(Yesterday \in Range(raw) /\ OnlyTime(Strip(Replace(Strip(raw), Yesterday))))

\* C5: parse_mongolian_date never raises, whatever the text, and returns the
\* current timestamp when no parsing attempt succeeds.
C5_NeverRaises ==
    dPc = "returned" =>
        /\ dOut.raised = ""
        /\ NothingParses(dRaw) => dOut.value = dNow

\* the time a token writes, on a given day, seconds zero
AtTime(day, t) ==
    [day |-> day,
     hour |-> CASE t = "14:30" -> 14 [] t = "09:00" -> 9 [] t = "23:59" -> 23,
     minute |-> CASE t = "14:30" -> 30 [] t = "09:00" -> 0 [] t = "23:59" -> 59,
     second |-> 0]

\* C13: the "today" marker with a valid HH:MM gives the current date at
\* HH:MM:00, the "yesterday" marker the day before at HH:MM:00, the date
\* being that of the one clock reading of the call; a text with both markers
\* is handled by the "today" branch (which parses, and rejects, today's date
\* followed by the text without the "today" marker).
C13_MarkerTimes ==
    dPc = "returned" =>
        LET restT == Strip(Replace(Strip(dRaw), Today))
            restY == Strip(Replace(Strip(dRaw), Yesterday))
        IN /\ (Today \in Range(dRaw) /\ OnlyTime(restT)) =>
                 /\ dOut.raised = ""
                 /\ dOut.value = AtTime(dNow.day, restT[1])
           /\ (Today \notin Range(dRaw) /\ Yesterday \in Range(dRaw) /\ OnlyTime(restY)) =>
                 /\ dOut.raised = ""
                 /\ dOut.value = AtTime(dNow.day - 1, restY[1])
           /\ (Today \in Range(dRaw) /\ Yesterday \in Range(dRaw)) =>
                 /\ dOut.raised = "ValueError"
                 /\ dOut.data = DateText(dNow.day) \o <<Blank>> \o restT

\* "today 14:30" read at 15:45:30 of day 10
C13_Witness ==
    /\ dPc = "returned"
    /\ dRaw = <<Today, Blank, "14:30">>
    /\ dNow = DateTime(10, 15, 45, 30)
    /\ dOut.value = DateTime(10, 14, 30, 0)

----------------------------------------------------------------------------
(* Properties of get_last_page (specification SpecLastPage).               *)

\* position k of href h starts a page parameter with a number
IsPageMatch(h, k) ==
    /\ k + 2 <= Len(h)
    /\ h[k] \in {"?", "&"}
    /\ h[k + 1] = "page="
    /\ h[k + 2] \in {"0", "1", "2", "3", "4", "5", "6", "7", "8", "9"}

\* last position of the digits that start at position k + 2
DigitsEnd(h, k) ==
    Max({e \in (k + 2)..Len(h) : \A m \in (k + 2)..e : h[m] \in DigitTokens})

RECURSIVE Pow10(_)
Pow10(n) == IF n = 0 THEN 1 ELSE 10 * Pow10(n - 1)

\* the number written by the digits that start at position k + 2
IntAt(h, k) ==
    LET e == DigitsEnd(h, k)
        digit(m) == CHOOSE v \in 0..9 : Digits[v + 1] = h[m]
        RECURSIVE sum(_)
        sum(m) == IF m > e THEN 0 ELSE digit(m) * Pow10(e - m) + sum(m + 1)
    IN sum(k + 2)

HrefsOf(doc) == {doc[k].href : k \in DOMAIN doc}

\* the numbers of all page parameters of all hyperlinks
AllPageIntegers(doc) ==
    UNION {{IntAt(h, k) : k \in {n \in DOMAIN h : IsPageMatch(h, n)}} :
               h \in HrefsOf(doc)}

\* the number of the first page parameter of each hyperlink that has one
FirstPageIntegers(doc) ==
    {IntAt(h, CHOOSE k \in DOMAIN h :
                  IsPageMatch(h, k) /\ \A n \in 1..(k - 1) : ~IsPageMatch(h, n)) :
        h \in {g \in HrefsOf(doc) : \E k \in DOMAIN g : IsPageMatch(g, k)}}

\* C8 as stated: get_last_page returns the largest integer carried by a page
\* query parameter of any hyperlink of the page, and 1 when there is none.
C8_MaxOverAllPageParams ==
    (lpPc = "returned" /\ lpDoc.status = "ok") =>
        /\ lpOut.raised = ""
        /\ lpOut.value = IF AllPageIntegers(lpDoc.doc) = {} THEN 1
                         ELSE Max(AllPageIntegers(lpDoc.doc))

\* C8 amended: each hyperlink counts once, with the digits that follow its
\* first "page=" that comes right after "?" or "&" and right before a digit;
\* get_last_page returns the largest of these numbers, and 1 when no
\* hyperlink has one.
C8_MaxOverFirstPageMatches ==
    (lpPc = "returned" /\ lpDoc.status = "ok") =>
        /\ lpOut.raised = ""
        /\ lpOut.value = IF FirstPageIntegers(lpDoc.doc) = {} THEN 1
                         ELSE Max(FirstPageIntegers(lpDoc.doc))

\* links with page=1, page=2 and page=5 give 5
C8_Witness ==
    /\ lpPc = "returned"
    /\ lpDoc.status = "ok"
    /\ {<<"/", "?", "page=", "1">>, <<"/", "?", "page=", "2">>,
        <<"/", "?", "page=", "5">>} \subseteq HrefsOf(lpDoc.doc)
    /\ lpOut.value = 5

----------------------------------------------------------------------------
(* Properties of scrape_detail_page (specification SpecDetail).            *)

\* the field of a record is the element's text, or None without the element
FieldIs(rec, name, el) ==
    /\ Key(name) \in DOMAIN rec
    /\ rec[Key(name)] = IF el = <<>> THEN None ELSE StrVal(Strip(el[1]))

\* C7: a record's URL field is present and is the URL that was fetched,
\* whatever characteristics the page lists; the other fixed fields are the
\* extracted text or None.
C7_UrlIsTheFetchedUrl ==
    (xPc = "returned" /\ xOut.ret = "record") =>
        LET rec == xOut.rec[1]
            pg  == xResp.page
        IN /\ Key("URL") \in DOMAIN rec
           /\ rec[Key("URL")] = StrVal(xUrl)
           /\ FieldIs(rec, "Title", pg.title)
           /\ FieldIs(rec, "Ad_ID", pg.sku)
           /\ FieldIs(rec, "Location", IF pg.address # <<>> THEN pg.address ELSE pg.loc2)

\* C10: a page fetched successfully gives a record whichever optional
\* elements are missing: a missing element gives None, a present one a value.
C10_MissingElementsGiveNone ==
    (xPc = "returned" /\ xResp.status = "ok") =>
        /\ xOut.ret = "record"
        /\ LET rec == xOut.rec[1]
               pg  == xResp.page
               absent(name, el) == (rec[Key(name)] = None) <=> (el = <<>>)
           IN /\ absent("Title", pg.title)
              /\ absent("Price", pg.price)
              /\ absent("Ad_ID", pg.sku)
              /\ absent("Location", pg.address \o pg.loc2)
              /\ absent("Date", pg.date)


\* C11: a page fetched successfully that has the "Published:" label gives a
\* record whatever text follows the label: the date text never makes the
\* listing drop out.  (Pages whose price <meta> lacks its content attribute
\* fail for another reason and are left aside.)
C11_DateTextNeverDropsListing ==
    (/\ xPc = "returned"
     /\ xResp.status = "ok"
     /\ xResp.page.date # <<>>
     /\ xResp.page.price # <<[content |-> <<>>]>>) =>
        xOut.ret = "record"


----------------------------------------------------------------------------
(* Properties of the Streamlit script (specification SpecApp).             *)

\* a Date on one of the days start .. end, whatever its time of day
OnDaysOf(v, start, end) ==
    v.kind = "datetime" /\ start <= v.dt.day /\ v.dt.day <= end

\* the rows of a batch whose Date is on the days start .. end, in order
RECURSIVE RowsOnDays(_, _, _)
RowsOnDays(rows, start, end) ==
    IF rows = <<>> THEN <<>>
    ELSE (IF OnDaysOf(Head(rows)[Key("Date")], start, end) THEN <<Head(rows)>>
          ELSE <<>>) \o RowsOnDays(Tail(rows), start, end)

\* C12: the custom range filter keeps exactly the rows whose Date lies
\* between start_date at 00:00:00 and the last instant of end_date, both
\* included, in their order, and drops the rows with an earlier, a later or
\* no Date; it filters every batch that has a row.
C12_RangeFilterKeepsTheInterval ==
    /\ (aPc = "save" /\ mode = "Custom Range") =>
           /\ df = RowsOnDays(returned, start_date, end_date)
           /\ \A n \in DOMAIN returned :
                 LET v == returned[n][Key("Date")] IN
                 (v = None \/ v.dt.day < start_date \/ v.dt.day > end_date) =>
                     returned[n] \notin Range(df)
    /\ (aPc = "failed" /\ returned # <<>>) => aError \in FetchStatus \ {"ok"}

\* today being D: the batch with the Dates D-3, D-1, D+2 filtered with the
\* range D-2 .. D, of which the D-1 row alone is kept
C12_Witness ==
    /\ aPc = "save" /\ mode = "Custom Range"
    /\ start_date = AppNow.day - 2 /\ end_date = AppNow.day
    /\ Len(returned) = 3
    /\ returned[1][Key("Date")].dt.day = AppNow.day - 3
    /\ returned[2][Key("Date")].dt.day = AppNow.day - 1
    /\ returned[3][Key("Date")].dt.day = AppNow.day + 2
    /\ df = <<returned[2]>>

\* C19: for every category whose scrape_category call returns a batch, the
\* empty one included, the date mode is applied without error and a success
\* message tells the number of rows kept: the script is ended by nothing
\* but a failed scrape_category, and in "Custom Range" mode an empty batch
\* gives the message with the count 0.
C19_DateModeAppliedToEveryBatch ==
    /\ aPc = "failed" => aError \in FetchStatus \ {"ok"}
    /\ aPc = "save" =>
           /\ Len(successes) = key
           /\ successes[key].category = selected[key]
           /\ successes[key].count = Len(df)
    /\ (aPc = "save" /\ returned = <<>>) => successes[key].count = 0

====
